---- MODULE Spec2Model ----
(***************************************************************************)
(* Verification model of the Local LLM Chat extension for VS Code          *)
(* (markusbegerow/local-llm-chat-vscode).                                  *)
(*                                                                         *)
(* The module holds these state machines over one set of variables:        *)
(*   Spec      the chat session of chatPanel.ts (ChatPanel): the webview   *)
(*             message handler, onUserMessage, the slash commands, the     *)
(*             clear command and the model call each of them awaits;       *)
(*   CommandSpec  the same session driven by slash commands of every       *)
(*             branch of handleCommand and one plain text;                 *)
(*   TrimSpec  utils.ts trimMessageHistory applied to bounded inputs;      *)
(*   PathSpec  utils.ts validateRelativePath and the operations that rely  *)
(*             on it, applied to bounded paths;                            *)
(*   FileSpec  the file-creation flows (ChatPanel.createFileWithConfirm    *)
(*             and extension.ts createFileFromSelection);                  *)
(*   LlmSpec   one call of llm.js callLLM, from its option checks to the   *)
(*             reply or the error, against a transport that may answer,    *)
(*             fail, stall or never answer (LlmLiveSpec adds fairness);    *)
(*   ExtractSpec  chatPanel.ts extractAllFileFences applied to texts made  *)
(*             of file fence blocks, other fences and plain text;          *)
(*   RoundTripSpec  extractAllFileFences applied to one file fence built   *)
(*             from a bounded path and a bounded content.                  *)
(* Each specification leaves the variables of the others untouched.        *)
(***************************************************************************)
EXTENDS Integers, Sequences, FiniteSets, TLC

VARIABLES
    \* ---- chat session (ChatPanel) ----
    messages,            \* ChatPanel.messages: the conversation
    maxHistoryMessages,  \* configuration option localLLM.maxHistoryMessages
    handlers,            \* the handler invocations started so far, in order
    posted,              \* what post() has sent to the webview, in order
    \* ---- trimMessageHistory on its own ----
    tpc, tc, tn, tout1, tout2,
    \* ---- validateRelativePath and its callers ----
    ppc, ppath, pop, paccepted, paccess,
    \* ---- file creation ----
    fs, allowWriteWithoutPrompt, creates,
    \* ---- one call of callLLM ----
    options,             \* the options callLLM was called with
    transport,           \* how the network behaves for this call
    lpc,                 \* where the call is: start, fetch, json, text, done
    requests,            \* the fetch calls issued, in order
    timer,               \* the abort timer: unset, armed, cleared, fired
    response,            \* the response as far as it has arrived
    result,              \* what callLLM returned or threw
    \* ---- extractAllFileFences on its own ----
    xpc, xpieces, xpath, xcontent, xout

chatVars == <<messages, maxHistoryMessages, handlers, posted>>
trimVars == <<tpc, tc, tn, tout1, tout2>>
pathVars == <<ppc, ppath, pop, paccepted, paccess>>
fileVars == <<fs, allowWriteWithoutPrompt, creates>>
llmVars == <<options, transport, lpc, requests, timer, response, result>>
extractVars == <<xpc, xpieces, xpath, xcontent, xout>>
vars == <<chatVars, trimVars, pathVars, fileVars, llmVars, extractVars>>

\* ------------------------------------------------------------------------
\* Bounds of the model
\* ------------------------------------------------------------------------
MaxConvLen == 4        \* longest conversation given to trimMessageHistory alone
MaxTrimBound == 3      \* largest bound given to trimMessageHistory alone

\* ------------------------------------------------------------------------
\* Generic helpers
\* ------------------------------------------------------------------------
Min(a, b) == IF a <= b THEN a ELSE b
Max(a, b) == IF a >= b THEN a ELSE b

\* All sequences over S of length at most n.
SeqsUpTo(S, n) == UNION { [1..k -> S] : k \in 0..n }

\* Array.prototype.slice(start) with one argument: a negative start counts
\* from the end (clamped at 0), a start of 0 (also -0) is the whole array,
\* a positive start drops that many leading elements.
JsSliceFrom(s, start) ==
    LET k == IF start < 0 THEN Max(Len(s) + start, 0) ELSE Min(start, Len(s))
    IN  SubSeq(s, k + 1, Len(s))

\* ------------------------------------------------------------------------
\* utils.ts: trimMessageHistory
\* ------------------------------------------------------------------------
Roles == {"system", "user", "assistant"}

IsSystem(m) == m.role = "system"
NotSystem(m) == m.role # "system"

\* A plausible slip: keep the last maxMessages messages whatever their role.
trimMessageHistory_keepLast(msgs, maxMessages) ==
    IF Len(msgs) <= maxMessages THEN msgs
    ELSE JsSliceFrom(msgs, -maxMessages)

trimMessageHistory(msgs, maxMessages) ==
    IF Len(msgs) <= maxMessages THEN msgs
    ELSE LET systemMessages == SelectSeq(msgs, IsSystem)
             otherMessages == SelectSeq(msgs, NotSystem)
             recentMessages ==
                 JsSliceFrom(otherMessages, -maxMessages + Len(systemMessages))
         IN  systemMessages \o recentMessages

\* Inputs of the stand-alone trimming machine.
TrimContents == {"a", "b"}
TrimMessages == [role : Roles, content : TrimContents]
Conversations == SeqsUpTo(TrimMessages, MaxConvLen)

TrimInit ==
    /\ tpc = "input"
    /\ tc \in Conversations
    /\ tn \in 1..MaxTrimBound
    /\ tout1 = <<>>
    /\ tout2 = <<>>

\* trim(c, n)
TrimOnce ==
    /\ tpc = "input"
    /\ tout1' = trimMessageHistory(tc, tn)
    /\ tpc' = "trimmed"
    /\ UNCHANGED <<tc, tn, tout2>>

\* trim(trim(c, n), n)
TrimAgain ==
    /\ tpc = "trimmed"
    /\ tout2' = trimMessageHistory(tout1, tn)
    /\ tpc' = "retrimmed"
    /\ UNCHANGED <<tc, tn, tout1>>

\* ------------------------------------------------------------------------
\* Text: a string is a sequence of one-character strings (a few fixed
\* phrases produced by the program are kept as one opaque chunk).
\* ------------------------------------------------------------------------
IsSpace(c) == c \in {" ", "\n", "\t", "\r"}

RECURSIVE TrimStart(_)
TrimStart(s) == IF s # <<>> /\ IsSpace(Head(s)) THEN TrimStart(Tail(s)) ELSE s

RECURSIVE TrimEnd(_)
TrimEnd(s) ==
    IF s # <<>> /\ IsSpace(s[Len(s)]) THEN TrimEnd(SubSeq(s, 1, Len(s) - 1)) ELSE s

\* String.prototype.trim
Trim(s) == TrimEnd(TrimStart(s))

\* String.prototype.startsWith / "literal at index i" (1-based)
LitAt(s, i, lit) ==
    /\ i >= 1
    /\ i + Len(lit) - 1 <= Len(s)
    /\ SubSeq(s, i, i + Len(lit) - 1) = lit
StartsWith(s, lit) == LitAt(s, 1, lit)

\* String.prototype.toLowerCase, on the letters the inputs use
ToLowerChar(c) ==
    CASE c = "R" -> "r" [] c = "E" -> "e" [] c = "A" -> "a" [] c = "D" -> "d"
      [] c = "H" -> "h" [] c = "L" -> "l" [] c = "P" -> "p"
      [] c = "I" -> "i" [] c = "S" -> "s" [] c = "T" -> "t"
      [] OTHER -> c
ToLowerCase(s) == [i \in 1..Len(s) |-> ToLowerChar(s[i])]

\* Index of the first element of s at or after i that satisfies / fails
\* IsSpace; Len(s) + 1 when there is none.
RECURSIVE NextSpace(_, _)
NextSpace(s, i) ==
    IF i > Len(s) \/ IsSpace(s[i]) THEN i ELSE NextSpace(s, i + 1)
RECURSIVE NextNonSpace(_, _)
NextNonSpace(s, i) ==
    IF i > Len(s) \/ ~IsSpace(s[i]) THEN i ELSE NextNonSpace(s, i + 1)

\* String.prototype.split(/\s+/)
RECURSIVE SplitSpaces(_)
SplitSpaces(s) ==
    LET i == NextSpace(s, 1)
    IN  IF i > Len(s) THEN <<s>>
        ELSE <<SubSeq(s, 1, i - 1)>>
                 \o SplitSpaces(SubSeq(s, NextNonSpace(s, i), Len(s)))

\* Array.prototype.join(' ')
RECURSIVE JoinSpace(_)
JoinSpace(parts) ==
    IF parts = <<>> THEN <<>>
    ELSE IF Len(parts) = 1 THEN parts[1]
    ELSE parts[1] \o <<" ">> \o JoinSpace(Tail(parts))

\* ------------------------------------------------------------------------
\* chatPanel.ts: extractAllFileFences
\* The regular expression: an opening fence followed by the word file,
\* white space, the attribute path in double quotes (one or more characters
\* other than a double quote), one or more line breaks, the content (lazy,
\* any characters) and the closing fence; flags g and m.
\* ------------------------------------------------------------------------
BQ == "BQ"             \* the backquote character
FenceLit == <<BQ, BQ, BQ>>
FenceFileLit == FenceLit \o <<"f", "i", "l", "e">>
PathAttrLit == <<"p", "a", "t", "h", "=", "\"">>
IsLineBreak(c) == c \in {"\n", "\r"}

RECURSIVE NextNonLineBreak(_, _)
NextNonLineBreak(s, i) ==
    IF i > Len(s) \/ ~IsLineBreak(s[i]) THEN i ELSE NextNonLineBreak(s, i + 1)
RECURSIVE NextQuote(_, _)
NextQuote(s, i) ==
    IF i > Len(s) \/ s[i] = "\"" THEN i ELSE NextQuote(s, i + 1)
RECURSIVE NextFence(_, _)
NextFence(s, i) ==
    IF i > Len(s) \/ LitAt(s, i, FenceLit) THEN i ELSE NextFence(s, i + 1)

NoMatch == [ok |-> FALSE, path |-> <<>>, content |-> <<>>, end |-> 0]

\* One attempt of the regular expression anchored at index i: the greedy
\* runs are forced (the character after each run is outside the run's
\* class) and the lazy content stops at the first closing fence.
FenceMatchAt(s, i) ==
    IF ~LitAt(s, i, FenceFileLit) THEN NoMatch
    ELSE LET ws == i + Len(FenceFileLit)
             attr == NextNonSpace(s, ws)
         IN  IF attr = ws \/ ~LitAt(s, attr, PathAttrLit) THEN NoMatch
             ELSE LET p == attr + Len(PathAttrLit)
                      q == NextQuote(s, p)
                  IN  IF q = p \/ q > Len(s) THEN NoMatch
                      ELSE LET c == NextNonLineBreak(s, q + 1)
                               e == NextFence(s, c)
                           IN  IF c = q + 1 \/ e > Len(s) THEN NoMatch
                               ELSE [ok |-> TRUE,
                                     path |-> SubSeq(s, p, q - 1),
                                     content |-> SubSeq(s, c, e - 1),
                                     end |-> e + Len(FenceLit)]

\* The exec loop from lastIndex i: the leftmost match, then on from its end.
RECURSIVE ExtractFrom(_, _)
ExtractFrom(s, i) ==
    IF i > Len(s) THEN <<>>
    ELSE LET m == FenceMatchAt(s, i)
         IN  IF m.ok
             THEN (IF m.path # <<>>
                   THEN <<[path |-> Trim(m.path), content |-> m.content]>>
                   ELSE <<>>) \o ExtractFrom(s, m.end)
             ELSE ExtractFrom(s, i + 1)

\* A plausible slip: only the first match is returned.
extractAllFileFences_firstOnly(text) ==
    LET all == ExtractFrom(text, 1)
    IN  IF all = <<>> THEN <<>> ELSE <<all[1]>>

extractAllFileFences(text) == ExtractFrom(text, 1)

\* ------------------------------------------------------------------------
\* utils.ts: validateRelativePath, on a POSIX host (path.sep = "/"; the
\* branch guarded by process.platform === 'win32' is not taken).
\* ------------------------------------------------------------------------
MaxPathLen == 5        \* longest path given to validateRelativePath alone

NUL == "NUL"           \* the character \0
Sep == <<"/">>
DotDot == <<".", ".">>

\* String.prototype.includes
Includes(s, lit) == \E i \in 1..Len(s) : LitAt(s, i, lit)

\* Index of the first "/" of s at or after i; Len(s) + 1 when there is none.
RECURSIVE NextSep(_, _)
NextSep(s, i) == IF i > Len(s) \/ s[i] = "/" THEN i ELSE NextSep(s, i + 1)

\* The segments of s between separators (empty segments included).
RECURSIVE Segments(_)
Segments(s) ==
    LET i == NextSep(s, 1)
    IN  IF i > Len(s) THEN <<s>>
        ELSE <<SubSeq(s, 1, i - 1)>> \o Segments(SubSeq(s, i + 1, Len(s)))

\* Node's normalizeString: drop "" and ".", let ".." remove the segment
\* before it, and keep a ".." that has nothing to remove only when the
\* path is relative (allowAboveRoot).
RECURSIVE NormalizeSegments(_, _, _)
NormalizeSegments(segs, res, allowAboveRoot) ==
    IF segs = <<>> THEN res
    ELSE LET seg == Head(segs)
             rest == Tail(segs)
         IN  IF seg = <<>> \/ seg = <<".">>
             THEN NormalizeSegments(rest, res, allowAboveRoot)
             ELSE IF seg = DotDot
             THEN IF res # <<>> /\ res[Len(res)] # DotDot
                  THEN NormalizeSegments(rest, SubSeq(res, 1, Len(res) - 1),
                                         allowAboveRoot)
                  ELSE IF allowAboveRoot
                  THEN NormalizeSegments(rest, Append(res, seg), allowAboveRoot)
                  ELSE NormalizeSegments(rest, res, allowAboveRoot)
             ELSE NormalizeSegments(rest, Append(res, seg), allowAboveRoot)

RECURSIVE JoinSep(_)
JoinSep(segs) ==
    IF segs = <<>> THEN <<>>
    ELSE IF Len(segs) = 1 THEN segs[1]
    ELSE segs[1] \o Sep \o JoinSep(Tail(segs))

\* path.isAbsolute (posix)
IsAbsolute(p) == p # <<>> /\ p[1] = "/"

\* path.normalize (posix)
Normalize(p) ==
    IF p = <<>> THEN <<".">>
    ELSE LET isAbs == IsAbsolute(p)
             trailing == p[Len(p)] = "/"
             body == JoinSep(NormalizeSegments(Segments(p), <<>>, ~isAbs))
         IN  IF body = <<>>
             THEN (IF isAbs THEN Sep ELSE IF trailing THEN <<".", "/">> ELSE <<".">>)
             ELSE (IF isAbs THEN Sep ELSE <<>>) \o body
                      \o (IF trailing THEN Sep ELSE <<>>)

\* A plausible slip: the check for ".." is missing.
validateRelativePath_noDotDot(relPath) ==
    LET normalized == Normalize(relPath)
    IN  IF relPath = <<>> \/ Trim(relPath) = <<>> THEN "Path cannot be empty"
        ELSE IF IsAbsolute(normalized) THEN "Absolute paths are not allowed"
        ELSE IF StartsWith(normalized, Sep) THEN "Path cannot start with a separator"
        ELSE IF Includes(relPath, <<NUL>>) THEN "Path contains null bytes"
        ELSE "ok"

\* A plausible slip: the check for null bytes is missing.
validateRelativePath_noNul(relPath) ==
    LET normalized == Normalize(relPath)
    IN  IF relPath = <<>> \/ Trim(relPath) = <<>> THEN "Path cannot be empty"
        ELSE IF IsAbsolute(normalized) THEN "Absolute paths are not allowed"
        ELSE IF Includes(normalized, DotDot) THEN "Path traversal (..) is not allowed"
        ELSE IF StartsWith(normalized, Sep) THEN "Path cannot start with a separator"
        ELSE "ok"

\* The error validateRelativePath throws, or "ok" when it returns.
validateRelativePath(relPath) ==
    LET normalized == Normalize(relPath)
    IN  IF relPath = <<>> \/ Trim(relPath) = <<>> THEN "Path cannot be empty"
        ELSE IF IsAbsolute(normalized) THEN "Absolute paths are not allowed"
        ELSE IF Includes(normalized, DotDot) THEN "Path traversal (..) is not allowed"
        ELSE IF StartsWith(normalized, Sep) THEN "Path cannot start with a separator"
        ELSE IF Includes(relPath, <<NUL>>) THEN "Path contains null bytes"
        ELSE "ok"

\* The workspace folder's URI path, and vscode.Uri.joinPath(workspace.uri,
\* relPath): the posix join of the two, normalized.
WorkspaceRoot == <<"/", "w">>
JoinPath(root, relPath) == Normalize(root \o Sep \o relPath)

\* The location is the workspace root or lies below it.
InsideWorkspace(loc) ==
    \/ loc = WorkspaceRoot
    \/ loc = WorkspaceRoot \o Sep
    \/ StartsWith(loc, WorkspaceRoot \o Sep)

NoAccess == <<"none">>
PathChars == {"a", ".", "/", NUL}
Paths == SeqsUpTo(PathChars, MaxPathLen)
PathOps == {"read", "list", "create", "createFromSelection"}

PathInit ==
    /\ ppc = "input"
    /\ ppath \in Paths
    /\ pop \in PathOps
    /\ paccepted = FALSE
    /\ paccess = NoAccess

\* readWorkspaceFile(relPath): validate, then fs.readFile(joinPath(...)).
PathRead ==
    /\ ppc = "input" /\ pop = "read"
    /\ paccepted' = (validateRelativePath(ppath) = "ok")
    /\ paccess' = IF paccepted' THEN JoinPath(WorkspaceRoot, ppath) ELSE NoAccess
    /\ ppc' = "done"
    /\ UNCHANGED <<ppath, pop>>

\* listWorkspaceFiles(relPath): an empty relPath is the root and is not
\* validated; otherwise validate, then fs.readDirectory(joinPath(...)).
PathList ==
    /\ ppc = "input" /\ pop = "list"
    /\ paccepted' = (ppath = <<>> \/ validateRelativePath(ppath) = "ok")
    /\ paccess' = IF ~paccepted' THEN NoAccess
                  ELSE IF ppath = <<>> THEN WorkspaceRoot
                  ELSE JoinPath(WorkspaceRoot, ppath)
    /\ ppc' = "done"
    /\ UNCHANGED <<ppath, pop>>

\* createFileWithConfirm(relPath, content): validate, then fs.stat and
\* (once confirmed) fs.writeFile on joinPath(...).
PathCreate ==
    /\ ppc = "input" /\ pop = "create"
    /\ paccepted' = (validateRelativePath(ppath) = "ok")
    /\ paccess' = IF paccepted' THEN JoinPath(WorkspaceRoot, ppath) ELSE NoAccess
    /\ ppc' = "done"
    /\ UNCHANGED <<ppath, pop>>

\* createFileFromSelection: the input box accepts a value only when
\* validateInput returns null; an empty result returns early.
PathCreateFromSelection ==
    /\ ppc = "input" /\ pop = "createFromSelection"
    /\ paccepted' = (ppath # <<>> /\ validateRelativePath(ppath) = "ok")
    /\ paccess' = IF paccepted' THEN JoinPath(WorkspaceRoot, ppath) ELSE NoAccess
    /\ ppc' = "done"
    /\ UNCHANGED <<ppath, pop>>

\* ------------------------------------------------------------------------
\* Chat session: inputs, configuration and the model endpoint
\* ------------------------------------------------------------------------
MaxInputs == 2             \* handler invocations (sends and clears) per run
MaxHistoryBound == 3       \* largest configured maxHistoryMessages

SystemPrompt == <<"S">>    \* config.systemPrompt, one opaque chunk
SystemMessage == [role |-> "system", content |-> SystemPrompt]

\* Texts a 'chat:send' event or sendMessageToChat can carry (non-empty).
TextHi == <<"h", "i">>
TextYoPadded == <<" ", "y", "o", "\n">>
TextBlank == <<" ">>
TextRead == <<"/", "r", "e", "a", "d", " ", "a">>
TextReadNoArg == <<"/", "R", "E", "A", "D">>
TextReadOutside == <<"/", "r", "e", "a", "d", " ", ".", ".", "/", "a">>
TextHelp == <<"/", "h", "e", "l", "p">>
TextList == <<"/", "l", "i", "s", "t">>
TextUnknown == <<"/", "x">>
InputTexts ==
    {TextHi, TextYoPadded, TextBlank, TextRead, TextReadNoArg,
     TextReadOutside, TextHelp, TextList, TextUnknown}

\* Inputs that exercise every branch of handleCommand: upper case, an
\* argument, a lone slash, and a slash followed by white space.
TextListUpperArg == <<"/", "L", "I", "S", "T", " ", "a">>
TextSearch == <<"/", "s", "e", "a", "r", "c", "h", " ", "x">>
TextSearchNoArg == <<"/", "s", "e", "a", "r", "c", "h">>
TextWorkspace == <<"/", "w", "o", "r", "k", "s", "p", "a", "c", "e">>
TextInfo == <<"/", "I", "n", "f", "o">>
TextHelpPadded == <<" ", "/", "h", "e", "l", "p", "\t", "m", "e">>
TextSlash == <<"/">>
TextSlashSpaceRead == <<"/", " ", "r", "e", "a", "d", " ", "a">>
CommandTexts ==
    {TextHi, TextListUpperArg, TextSearch, TextSearchNoArg, TextWorkspace,
     TextInfo, TextHelpPadded, TextSlash, TextSlashSpaceRead, TextUnknown, TextRead}

\* Content of the workspace file a /read fetches.
FileText == <<"x">>

\* What the endpoint can deliver to one call: a failure (configuration
\* error, network error, non-success status, abort by the timer) or a
\* success status whose message content is the given text (empty when the
\* content is missing).
ReplyHello == <<" ", "o", "k">>
ReplyOneFile ==
    FenceFileLit \o <<" ">> \o PathAttrLit \o <<"a", "\"", "\n", "x">> \o FenceLit
ReplyTwoFiles ==
    ReplyOneFile \o <<"\n">>
        \o FenceFileLit \o <<" ">> \o PathAttrLit \o <<"b", "\"", "\n">> \o FenceLit
ProviderContents == {<<>>, ReplyHello, ReplyOneFile, ReplyTwoFiles}
LLMResponses ==
    {[status |-> "error", content |-> <<>>]}
        \cup {[status |-> "ok", content |-> c] : c \in ProviderContents}

\* callLLM's result for a response: the trimmed content, or an error
\* ("Empty response ..." when the content is missing or empty).
callLLMResult(resp) ==
    IF resp.status # "ok" THEN [ok |-> FALSE, text |-> <<"LLM API error">>]
    ELSE IF resp.content = <<>> THEN [ok |-> FALSE, text |-> <<"Empty response">>]
    ELSE [ok |-> TRUE, text |-> Trim(resp.content)]

\* A message posted to the webview.
Ev(type, role, content, path) ==
    [type |-> type, role |-> role, content |-> content, path |-> path]
AppendEv(role, content) == Ev("chat:append", role, content, <<>>)
ErrorEv(message) == Ev("chat:error", "", message, <<>>)
ClearEv == Ev("chat:clear", "", <<>>, <<>>)
SuggestEv(file) == Ev("file:suggest", "", file.content, file.path)

SuggestEvs(files) == [i \in 1..Len(files) |-> SuggestEv(files[i])]

\* ------------------------------------------------------------------------
\* chatPanel.ts: ChatPanel
\* ------------------------------------------------------------------------
CmdRead == <<"r", "e", "a", "d">>
CmdList == <<"l", "i", "s", "t">>
CmdSearch == <<"s", "e", "a", "r", "c", "h">>
CmdWorkspace == <<"w", "o", "r", "k", "s", "p", "a", "c", "e">>
CmdInfo == <<"i", "n", "f", "o">>
CmdHelp == <<"h", "e", "l", "p">>

\* What one synchronous run of a handler does, up to its first suspension
\* (pc "llm", "read" or "query") or its return (pc "done").
Effect(msgs, posts, pc, cmd, arg, sent) ==
    [msgs |-> msgs, posts |-> posts, pc |-> pc, cmd |-> cmd, arg |-> arg,
     sent |-> sent]

\* A plausible slip: the command token is compared as typed.
handleCommand_caseSensitive(msgs, command) ==
    LET parts == SplitSpaces(SubSeq(command, 2, Len(command)))
        cmd == parts[1]
        args == Tail(parts)
        joined == JoinSpace(args)
        done(posts) == Effect(msgs, posts, "done", cmd, joined, <<>>)
        await(pc) == Effect(msgs, <<>>, pc, cmd, joined, <<>>)
    IN  CASE cmd = CmdRead ->
               IF args = <<>>
               THEN done(<<AppendEv("system", <<"Usage: /read <file-path>">>)>>)
               ELSE IF validateRelativePath(joined) # "ok"
               THEN done(<<ErrorEv(<<validateRelativePath(joined)>>)>>)
               ELSE await("read")
          [] cmd = CmdList ->
               IF joined # <<>> /\ validateRelativePath(joined) # "ok"
               THEN done(<<ErrorEv(<<validateRelativePath(joined)>>)>>)
               ELSE await("query")
          [] cmd = CmdSearch ->
               IF args = <<>>
               THEN done(<<AppendEv("system", <<"Usage: /search <pattern>">>)>>)
               ELSE await("query")
          [] cmd \in {CmdWorkspace, CmdInfo} -> await("query")
          [] cmd = CmdHelp ->
               done(<<AppendEv("system", <<"Available Commands:">>)>>)
          [] OTHER ->
               done(<<AppendEv("system", <<"Unknown command: /">> \o cmd)>>)

\* handleCommand(command). A path that validateRelativePath rejects makes
\* readWorkspaceFile / listWorkspaceFiles throw before they touch the file
\* system, and the catch posts the error in the same run.
handleCommand(msgs, command) ==
    LET parts == SplitSpaces(SubSeq(command, 2, Len(command)))
        cmd == ToLowerCase(parts[1])
        args == Tail(parts)
        joined == JoinSpace(args)
        done(posts) == Effect(msgs, posts, "done", cmd, joined, <<>>)
        await(pc) == Effect(msgs, <<>>, pc, cmd, joined, <<>>)
    IN  CASE cmd = CmdRead ->
               IF args = <<>>
               THEN done(<<AppendEv("system", <<"Usage: /read <file-path>">>)>>)
               ELSE IF validateRelativePath(joined) # "ok"
               THEN done(<<ErrorEv(<<validateRelativePath(joined)>>)>>)
               ELSE await("read")
          [] cmd = CmdList ->
               IF joined # <<>> /\ validateRelativePath(joined) # "ok"
               THEN done(<<ErrorEv(<<validateRelativePath(joined)>>)>>)
               ELSE await("query")
          [] cmd = CmdSearch ->
               IF args = <<>>
               THEN done(<<AppendEv("system", <<"Usage: /search <pattern>">>)>>)
               ELSE await("query")
          [] cmd \in {CmdWorkspace, CmdInfo} -> await("query")
          [] cmd = CmdHelp ->
               done(<<AppendEv("system", <<"Available Commands:">>)>>)
          [] OTHER ->
               done(<<AppendEv("system", <<"Unknown command: /">> \o cmd)>>)

\* onUserMessage(text) up to the await of callLLM: the push, the trim and
\* the request (callLLM serializes this.messages in the same run).
onUserMessage(msgs, maxMessages, text) ==
    LET trimmedText == Trim(text)
    IN  IF trimmedText = <<>>
        THEN Effect(msgs, <<>>, "done", <<>>, <<>>, <<>>)
        ELSE IF StartsWith(trimmedText, <<"/">>)
        THEN handleCommand(msgs, trimmedText)
        ELSE LET pushed == Append(msgs, [role |-> "user", content |-> trimmedText])
                 trimmed == trimMessageHistory(pushed, maxMessages)
             IN  Effect(trimmed, <<>>, "llm", <<>>, <<>>, trimmed)

\* The record kept of one handler invocation: its input, where it stands
\* (pc), the conversation when it started (before), the list it handed to
\* callLLM (sent, empty when it made no call), how many earlier handlers
\* were still suspended when it started (pending) and how it ended.
Handler(kind, text, eff) ==
    [kind |-> kind, text |-> text, user |-> Trim(text), cmd |-> eff.cmd,
     arg |-> eff.arg, pc |-> eff.pc, before |-> messages, sent |-> eff.sent,
     pending |-> Cardinality({j \in 1..Len(handlers) : handlers[j].pc # "done"}),
     outcome |-> "", reply |-> <<>>]

Finish(i, outcome, reply) ==
    handlers' = [handlers EXCEPT ![i].pc = "done", ![i].outcome = outcome,
                                 ![i].reply = reply]

\* resetConversation()
resetConversation == <<SystemMessage>>

ChatInit ==
    /\ messages = resetConversation
    /\ maxHistoryMessages \in 1..MaxHistoryBound
    /\ handlers = <<>>
    /\ posted = <<>>

\* The webview's 'chat:send': post the user's text, then onUserMessage.
ChatSend(text) ==
    /\ Len(handlers) < MaxInputs
    /\ LET eff == onUserMessage(messages, maxHistoryMessages, text)
       IN  /\ messages' = eff.msgs
           /\ posted' = posted \o <<AppendEv("user", text)>> \o eff.posts
           /\ handlers' = Append(handlers, Handler("chat:send", text, eff))
    /\ UNCHANGED maxHistoryMessages

\* sendMessageToChat(text): returns at once on a blank text.
SendMessageToChat(text) ==
    /\ Len(handlers) < MaxInputs
    /\ Trim(text) # <<>>
    /\ LET eff == onUserMessage(messages, maxHistoryMessages, text)
       IN  /\ messages' = eff.msgs
           /\ posted' = posted \o <<AppendEv("user", text)>> \o eff.posts
           /\ handlers' = Append(handlers, Handler("sendMessageToChat", text, eff))
    /\ UNCHANGED maxHistoryMessages

\* A plausible slip: the reset is skipped while a model call is pending.
ClearConversation_unlessPending ==
    /\ Len(handlers) < MaxInputs
    /\ messages' = IF \E i \in 1..Len(handlers) : handlers[i].pc = "llm"
                   THEN messages ELSE resetConversation
    /\ posted' = Append(posted, ClearEv)
    /\ handlers' = Append(handlers,
           Handler("clear", <<>>, Effect(messages, <<>>, "done", <<>>, <<>>, <<>>)))
    /\ UNCHANGED maxHistoryMessages

\* clearConversation(): 'chat:clear' or the Clear Conversation command.
ClearConversation ==
    /\ Len(handlers) < MaxInputs
    /\ messages' = resetConversation
    /\ posted' = Append(posted, ClearEv)
    /\ handlers' = Append(handlers,
           Handler("clear", <<>>, Effect(messages, <<>>, "done", <<>>, <<>>, <<>>)))
    /\ UNCHANGED maxHistoryMessages

\* callLLM resolves: push the reply, post it, post each suggestion.
LLMReturns(i, resp) ==
    /\ handlers[i].pc = "llm"
    /\ callLLMResult(resp).ok
    /\ LET reply == callLLMResult(resp).text
       IN  /\ messages' = Append(messages, [role |-> "assistant", content |-> reply])
           /\ posted' = posted \o <<AppendEv("assistant", reply)>>
                            \o SuggestEvs(extractAllFileFences(reply))
           /\ Finish(i, "reply", reply)
    /\ UNCHANGED maxHistoryMessages

\* A plausible slip: the failed turn is rolled back.
LLMThrows_rollback(i, resp) ==
    /\ handlers[i].pc = "llm"
    /\ ~callLLMResult(resp).ok
    /\ messages' = SubSeq(messages, 1, Len(messages) - 1)
    /\ posted' = Append(posted, ErrorEv(callLLMResult(resp).text))
    /\ Finish(i, "error", <<>>)
    /\ UNCHANGED maxHistoryMessages

\* A plausible slip: the error is also shown as an assistant message.
LLMThrows_alsoAppends(i, resp) ==
    /\ handlers[i].pc = "llm"
    /\ ~callLLMResult(resp).ok
    /\ posted' = posted \o <<ErrorEv(callLLMResult(resp).text),
                              AppendEv("assistant", callLLMResult(resp).text)>>
    /\ Finish(i, "error", <<>>)
    /\ UNCHANGED <<messages, maxHistoryMessages>>

\* callLLM rejects: the catch of onUserMessage posts the error.
LLMThrows(i, resp) ==
    /\ handlers[i].pc = "llm"
    /\ ~callLLMResult(resp).ok
    /\ posted' = Append(posted, ErrorEv(callLLMResult(resp).text))
    /\ Finish(i, "error", <<>>)
    /\ UNCHANGED <<messages, maxHistoryMessages>>

\* A plausible slip: the file is shown but not added to the conversation.
ReadReturns_reportOnly(i) ==
    /\ handlers[i].pc = "read"
    /\ posted' = Append(posted, AppendEv("system", <<"File \"">> \o handlers[i].arg))
    /\ Finish(i, "report", <<>>)
    /\ UNCHANGED <<messages, maxHistoryMessages>>

\* A plausible slip: the file is added with the system role.
ReadReturns_asSystem(i) ==
    /\ handlers[i].pc = "read"
    /\ messages' = Append(messages,
           [role |-> "system", content |-> FileText])
    /\ posted' = Append(posted, AppendEv("system", <<"File \"">> \o handlers[i].arg))
    /\ Finish(i, "report", <<>>)
    /\ UNCHANGED maxHistoryMessages

\* commandReadFile after readWorkspaceFile resolves: post the report and
\* push the content as a user message.
ReadReturns(i) ==
    /\ handlers[i].pc = "read"
    /\ LET filePath == handlers[i].arg
           shown == <<"File \"">> \o filePath \o <<"\":\n\n">> \o FenceLit \o <<"\n">>
                        \o FileText \o <<"\n">> \o FenceLit
           context == <<"I'm showing you the content of file \"">> \o filePath
                          \o <<"\":\n\n">> \o FenceLit \o <<"\n">> \o FileText \o <<"\n">> \o FenceLit
       IN  /\ posted' = Append(posted, AppendEv("system", shown))
           /\ messages' = Append(messages, [role |-> "user", content |-> context])
    /\ Finish(i, "report", <<>>)
    /\ UNCHANGED maxHistoryMessages

\* readWorkspaceFile rejects (no workspace, unreadable file).
ReadThrows(i) ==
    /\ handlers[i].pc = "read"
    /\ posted' = Append(posted, ErrorEv(<<"Failed to read file">>))
    /\ Finish(i, "error", <<>>)
    /\ UNCHANGED <<messages, maxHistoryMessages>>

\* /list, /search, /workspace, /info after their query resolves.
QueryReturns(i) ==
    /\ handlers[i].pc = "query"
    /\ posted' = Append(posted, AppendEv("system", <<"Report: /">> \o handlers[i].cmd))
    /\ Finish(i, "report", <<>>)
    /\ UNCHANGED <<messages, maxHistoryMessages>>

\* The query rejects (no workspace, unreadable directory).
QueryThrows(i) ==
    /\ handlers[i].pc = "query"
    /\ posted' = Append(posted, ErrorEv(<<"Failed: /">> \o handlers[i].cmd))
    /\ Finish(i, "error", <<>>)
    /\ UNCHANGED <<messages, maxHistoryMessages>>

\* ------------------------------------------------------------------------
\* File creation: ChatPanel.createFileWithConfirm ('file:create') and
\* extension.ts createFileFromSelection
\* ------------------------------------------------------------------------
MaxCreates == 2        \* file-creation requests per run
MaxFileSize == 2       \* config.maxFileSize, in bytes

Absent == <<"ABSENT">>
FilePathA == <<"a">>
FilePathB == <<"b">>
FilePathOutside == <<".", ".", "/", "a">>
RequestPaths == {FilePathA, FilePathB, FilePathOutside}
WorkspaceFiles == {FilePathA, FilePathB}
\* "E2" stands for one character whose UTF-8 encoding takes two bytes.
WideChar == "E2"
\* ContentSmall has one character and two bytes; ContentLarge has two
\* characters and four bytes.
ContentSmall == <<WideChar>>
ContentLarge == <<WideChar, WideChar>>
RequestContents == {ContentSmall, ContentLarge}
Origins == {"file:create", "newFileFromSelection"}

\* Buffer.byteLength(content, 'utf8'): the bytes of the UTF-8 encoding
RECURSIVE ByteLength(_)
ByteLength(content) ==
    IF content = <<>> THEN 0
    ELSE (IF Head(content) = WideChar THEN 2 ELSE 1) + ByteLength(Tail(content))

\* A plausible slip: the size is measured in characters (content.length).
validateFileContent_charLength(content, maxSize) ==
    IF Len(content) > maxSize THEN "Content size exceeds maximum" ELSE "ok"

\* validateFileContent(content, maxSize): "ok" or the error thrown
validateFileContent(content, maxSize) ==
    IF ByteLength(content) > maxSize THEN "Content size exceeds maximum" ELSE "ok"

\* The validations both flows run before they look at the file system:
\* "ok", or why the flow ends.
CreateChecks(relPath, content, hasWorkspace) ==
    IF validateRelativePath(relPath) # "ok" THEN validateRelativePath(relPath)
    ELSE IF ~hasWorkspace THEN "No workspace folder open"
    ELSE validateFileContent(content, MaxFileSize)

FileInit ==
    /\ fs \in [WorkspaceFiles -> {Absent, ContentSmall}]
    /\ allowWriteWithoutPrompt \in BOOLEAN
    /\ creates = <<>>

\* A request arrives and runs up to the await of fs.stat, or ends on a
\* failed validation.
CreateFileRequest(origin, relPath, content, hasWorkspace) ==
    /\ Len(creates) < MaxCreates
    /\ LET checks == CreateChecks(relPath, content, hasWorkspace)
       IN  creates' = Append(creates,
               [origin |-> origin, path |-> relPath, content |-> content,
                pc |-> IF checks = "ok" THEN "stat" ELSE "done",
                outcome |-> IF checks = "ok" THEN "" ELSE checks,
                action |-> "", choice |-> "", written |-> 0])
    /\ UNCHANGED <<fs, allowWriteWithoutPrompt>>

\* fs.stat resolves or rejects; the modal prompt for the request's path is
\* shown, labelled with the action (kept in the request's record).
StatAndPrompt(i) ==
    /\ creates[i].pc = "stat"
    /\ LET action == IF fs[creates[i].path] # Absent THEN "Overwrite" ELSE "Create"
       IN  creates' = [creates EXCEPT ![i].pc = "prompt", ![i].action = action]
    /\ UNCHANGED <<fs, allowWriteWithoutPrompt>>

\* A plausible slip: the answer is not compared with the action.
AnswerPrompt_anyAnswer(i, choice) ==
    /\ creates[i].pc = "prompt"
    /\ creates' = [creates EXCEPT ![i].pc = "write", ![i].choice = choice]
    /\ UNCHANGED <<fs, allowWriteWithoutPrompt>>

\* The user answers the prompt: the action's button, Cancel, or none
\* (the dialog is dismissed). Only the action's button goes on to
\* fs.writeFile.
AnswerPrompt(i, choice) ==
    /\ creates[i].pc = "prompt"
    /\ creates' = [creates EXCEPT
           ![i].pc = IF choice = creates[i].action THEN "write" ELSE "done",
           ![i].choice = choice,
           ![i].outcome = IF choice = creates[i].action THEN "" ELSE "declined"]
    /\ UNCHANGED <<fs, allowWriteWithoutPrompt>>

\* fs.writeFile resolves.
WriteFile(i) ==
    /\ creates[i].pc = "write"
    /\ fs' = [fs EXCEPT ![creates[i].path] = creates[i].content]
    /\ creates' = [creates EXCEPT ![i].pc = "done", ![i].outcome = "written",
                                 ![i].written = @ + 1]
    /\ UNCHANGED allowWriteWithoutPrompt

\* Another actor changes the workspace: the file appears or disappears.
WorkspaceChange(p) ==
    /\ fs' = [fs EXCEPT ![p] = IF fs[p] = Absent THEN ContentSmall ELSE Absent]
    /\ UNCHANGED <<allowWriteWithoutPrompt, creates>>

Choices == {"Create", "Overwrite", "Cancel", "dismissed"}

\* ------------------------------------------------------------------------
\* llm.js: callLLM, callOpenAIEndpoint, callOllamaEndpoint
\* A URL is a sequence of chunks: a scheme ("http:"), "//", a host, and
\* path chunks.
\* ------------------------------------------------------------------------
ModelName == <<"m">>
UrlBase == <<"http:", "//", "h">>
UrlBaseSlash == <<"http:", "//", "h", "/">>
UrlFtp == <<"ftp:", "//", "h">>
UrlNoScheme == <<"h">>
UrlCustom == <<"https:", "//", "c", "/", "x">>
Blank == <<" ">>
ChatCompletionsPath == <<"/v1/chat/completions">>
ApiChatPath == <<"/api/chat">>

ModelNames == {<<>>, Blank, ModelName}
ApiUrls == {<<>>, Blank, UrlNoScheme, UrlFtp, UrlBase, UrlBaseSlash}
ApiCompats == {"openai", "ollama"}
CustomEndpoints == {<<>>, Blank, UrlNoScheme, UrlCustom}
Tokens == {<<>>, <<"t">>}

\* new URL(url).protocol, or "invalid" when the constructor throws; the
\* parser strips leading and trailing spaces.
UrlProtocol(url) ==
    LET u == Trim(url)
    IN  IF Len(u) >= 3 /\ u[1] \in {"http:", "https:", "ftp:"} /\ u[2] = "//"
        THEN u[1] ELSE "invalid"

\* utils.ts validateUrl
validateUrl(url) ==
    IF url = <<>> \/ Len(Trim(url)) = 0 THEN FALSE
    ELSE UrlProtocol(url) \in {"http:", "https:"}

\* apiUrl.replace(/\/$/, '')
StripTrailingSlash(url) ==
    IF url # <<>> /\ url[Len(url)] = "/" THEN SubSeq(url, 1, Len(url) - 1) ELSE url

\* The request body of each endpoint function, by its field names.
OpenAIBody == {"model", "messages", "temperature", "max_tokens", "stream"}
OllamaBody == {"model", "messages", "stream", "options.temperature",
               "options.num_predict"}

\* The headers callLLM builds.
Headers(token) ==
    IF token # <<>> /\ Len(Trim(token)) > 0
    THEN {"Content-Type", "Authorization"} ELSE {"Content-Type"}

Throw(message) == [kind |-> "throw", message |-> message]
Fetch(endpoint, url, body, headers) ==
    [kind |-> "fetch", endpoint |-> endpoint, url |-> url, body |-> body,
     headers |-> headers]

\* callOpenAIEndpoint / callOllamaEndpoint up to their await of fetch
callOpenAIEndpoint(url, headers) == Fetch("callOpenAIEndpoint", url, OpenAIBody, headers)
callOllamaEndpoint(url, headers) == Fetch("callOllamaEndpoint", url, OllamaBody, headers)

IsBlank(text) == text = <<>> \/ Len(Trim(text)) = 0

\* A plausible slip: the base URL is checked before the custom endpoint is
\* looked at, and the custom endpoint only replaces the OpenAI route.
callLLM_baseUrlFirst(o) ==
    IF IsBlank(o.model) THEN Throw("Model name is not configured")
    ELSE IF IsBlank(o.apiUrl) THEN Throw("API URL is not configured")
    ELSE IF ~validateUrl(o.apiUrl) THEN Throw("Invalid API URL")
    ELSE IF o.apiCompat = "openai"
    THEN callOpenAIEndpoint(
             IF ~IsBlank(o.customEndpoint) THEN o.customEndpoint
             ELSE StripTrailingSlash(o.apiUrl) \o ChatCompletionsPath,
             Headers(o.token))
    ELSE callOllamaEndpoint(StripTrailingSlash(o.apiUrl) \o ApiChatPath,
                            Headers(o.token))

\* A plausible slip: the model name is not checked.
callLLM_noModelCheck(o) ==
    IF ~IsBlank(o.customEndpoint)
    THEN IF ~validateUrl(o.customEndpoint) THEN Throw("Invalid custom endpoint URL")
         ELSE callOpenAIEndpoint(o.customEndpoint, Headers(o.token))
    ELSE IF IsBlank(o.apiUrl) THEN Throw("API URL is not configured")
    ELSE IF ~validateUrl(o.apiUrl) THEN Throw("Invalid API URL")
    ELSE IF o.apiCompat = "openai"
    THEN callOpenAIEndpoint(StripTrailingSlash(o.apiUrl) \o ChatCompletionsPath,
                            Headers(o.token))
    ELSE callOllamaEndpoint(StripTrailingSlash(o.apiUrl) \o ApiChatPath,
                            Headers(o.token))

\* A plausible slip: the native route posts the OpenAI body.
callLLM_sharedBody(o) ==
    IF IsBlank(o.model) THEN Throw("Model name is not configured")
    ELSE IF ~IsBlank(o.customEndpoint)
    THEN IF ~validateUrl(o.customEndpoint) THEN Throw("Invalid custom endpoint URL")
         ELSE callOpenAIEndpoint(o.customEndpoint, Headers(o.token))
    ELSE IF IsBlank(o.apiUrl) THEN Throw("API URL is not configured")
    ELSE IF ~validateUrl(o.apiUrl) THEN Throw("Invalid API URL")
    ELSE IF o.apiCompat = "openai"
    THEN callOpenAIEndpoint(StripTrailingSlash(o.apiUrl) \o ChatCompletionsPath,
                            Headers(o.token))
    ELSE Fetch("callOllamaEndpoint", StripTrailingSlash(o.apiUrl) \o ApiChatPath,
               OpenAIBody, Headers(o.token))

\* callLLM(options) up to the await of fetch: the error it throws or the
\* request it issues.
callLLM(o) ==
    IF IsBlank(o.model) THEN Throw("Model name is not configured")
    ELSE IF ~IsBlank(o.customEndpoint)
    THEN IF ~validateUrl(o.customEndpoint) THEN Throw("Invalid custom endpoint URL")
         ELSE callOpenAIEndpoint(o.customEndpoint, Headers(o.token))
    ELSE IF IsBlank(o.apiUrl) THEN Throw("API URL is not configured")
    ELSE IF ~validateUrl(o.apiUrl) THEN Throw("Invalid API URL")
    ELSE IF o.apiCompat = "openai"
    THEN callOpenAIEndpoint(StripTrailingSlash(o.apiUrl) \o ChatCompletionsPath,
                            Headers(o.token))
    ELSE callOllamaEndpoint(StripTrailingSlash(o.apiUrl) \o ApiChatPath,
                            Headers(o.token))

\* The JSON body of a response. A missing property is the value Missing;
\* choices, when present, is a list of entries, each given by the content
\* of its message (Missing when the entry has no message or no content).
Missing == <<"MISSING">>
ContentPadded == <<" ", "o", "k", "\n">>
ContentOther == <<"n", "o">>
Contents == {Missing, <<>>, Blank, ContentPadded}
ChoiceLists ==
    {<<>>} \cup {<<c>> : c \in Contents} \cup {<<ContentPadded, ContentOther>>}
Payloads ==
    [choices : {[present |-> FALSE, list |-> <<>>]}
                   \cup {[present |-> TRUE, list |-> l] : l \in ChoiceLists},
     message : Contents]
Statuses == {200, 500}
NoPayload == [choices |-> [present |-> FALSE, list |-> <<>>], message |-> Missing]
NoResponse == [status |-> 0, json |-> NoPayload]

\* A property access that JavaScript treats as false: missing or "".
Falsy(content) == content = Missing \/ content = <<>>

Return(text) == [kind |-> "return", text |-> text]
NoResult == [kind |-> "none"]

\* A plausible slip: the last choice is read instead of the first.
parseOpenAI_lastChoice(json) ==
    IF ~json.choices.present \/ Len(json.choices.list) = 0
    THEN Throw("No response choices returned from LLM")
    ELSE IF Falsy(json.choices.list[Len(json.choices.list)])
    THEN Throw("Empty response from LLM")
    ELSE Return(Trim(json.choices.list[Len(json.choices.list)]))

\* callOpenAIEndpoint after response.json()
parseOpenAI(json) ==
    IF ~json.choices.present \/ Len(json.choices.list) = 0
    THEN Throw("No response choices returned from LLM")
    ELSE IF Falsy(json.choices.list[1]) THEN Throw("Empty response from LLM")
    ELSE Return(Trim(json.choices.list[1]))

\* callOllamaEndpoint after response.json()
parseOllama(json) ==
    IF Falsy(json.message) THEN Throw("Empty response from Ollama")
    ELSE Return(Trim(json.message))

Transports == {"never", "networkError", "headersOnly", "full"}

LlmInit ==
    /\ options \in [model : ModelNames, apiUrl : ApiUrls, apiCompat : ApiCompats,
                     customEndpoint : CustomEndpoints, token : Tokens]
    /\ transport \in Transports
    /\ lpc = "start" /\ requests = <<>> /\ timer = "unset"
    /\ response = NoResponse /\ result = NoResult

\* callLLM runs up to the await of fetch: it throws, or it issues the
\* request and arms the abort timer.
CallLLM ==
    /\ lpc = "start"
    /\ LET c == callLLM(options)
       IN  IF c.kind = "throw"
           THEN /\ lpc' = "done" /\ result' = c
                /\ UNCHANGED <<requests, timer>>
           ELSE /\ lpc' = "fetch" /\ requests' = Append(requests, c)
                /\ timer' = "armed"
                /\ UNCHANGED result
    /\ UNCHANGED <<options, transport, response>>

\* fetch resolves with the response headers: clearTimeout runs, and the
\* function goes on to await the body (response.text() or response.json()).
FetchResolves(status) ==
    /\ lpc = "fetch" /\ transport \in {"headersOnly", "full"}
    /\ timer' = "cleared"
    /\ lpc' = IF status = 200 THEN "json" ELSE "text"
    /\ response' = [status |-> status, json |-> NoPayload]
    /\ UNCHANGED <<options, transport, requests, result>>

\* A plausible slip: a failed attempt is tried again.
FetchRejects_retry ==
    /\ lpc = "fetch" /\ transport = "networkError"
    /\ requests' = Append(requests, requests[Len(requests)])
    /\ transport' = "full"
    /\ UNCHANGED <<options, lpc, timer, response, result>>

\* fetch rejects with a network error: the catch rethrows it. The timer
\* stays armed.
FetchRejects ==
    /\ lpc = "fetch" /\ transport = "networkError"
    /\ lpc' = "done" /\ result' = Throw("fetch failed")
    /\ UNCHANGED <<options, transport, requests, timer, response>>

\* The timer fires: controller.abort(). A pending fetch rejects with an
\* AbortError, which the catch turns into the timeout error.
TimerFires ==
    /\ timer = "armed"
    /\ timer' = "fired"
    /\ IF lpc = "fetch"
       THEN lpc' = "done" /\ result' = Throw("Request timed out")
       ELSE UNCHANGED <<lpc, result>>
    /\ UNCHANGED <<options, transport, requests, response>>

\* The body arrives: the error text of a non-success status, or the JSON
\* that the endpoint function's parser reads.
BodyArrives(payload) ==
    /\ lpc \in {"json", "text"} /\ transport = "full"
    /\ lpc' = "done"
    /\ response' = IF lpc = "text" THEN response
                   ELSE [response EXCEPT !.json = payload]
    /\ result' = IF lpc = "text" THEN Throw("API error (status)")
                 ELSE IF requests[Len(requests)].endpoint = "callOpenAIEndpoint"
                 THEN parseOpenAI(payload)
                 ELSE parseOllama(payload)
    /\ UNCHANGED <<options, transport, requests, timer>>

\* ------------------------------------------------------------------------
\* extractAllFileFences on its own: a text is a list of pieces, one per
\* line group, joined by line breaks.
\* ------------------------------------------------------------------------
MaxPieces == 3         \* pieces in a text given to extractAllFileFences alone

FileFence(path, break, content) ==
    FenceFileLit \o <<" ">> \o PathAttrLit \o path \o <<"\"">> \o break
        \o content \o FenceLit

\* The pieces: plain text, three file fence blocks (one with a CRLF line
\* break and a content of two lines, one with an empty content), a fence
\* of another language, and a file fence that is not well formed because
\* no line break follows its path attribute.
PieceNames == {"text", "blockA", "blockB", "blockEmpty", "codeFence", "noBreak"}
Piece(name) ==
    CASE name = "text" -> <<"h", "i", " ", "f", "i", "l", "e">>
      [] name = "blockA" -> FileFence(<<"a">>, <<"\n">>, <<"x">>)
      [] name = "blockB" ->
             FileFence(<<"b", "/", "c">>, <<"\r", "\n">>, <<"y", "\n", "z", "\n">>)
      [] name = "blockEmpty" -> FileFence(<<"e">>, <<"\n">>, <<>>)
      [] name = "codeFence" -> FenceLit \o <<"j", "s", "\n", "q", "\n">> \o FenceLit
      [] name = "noBreak" ->
             FenceFileLit \o <<" ">> \o PathAttrLit \o <<"d", "\"", " ", "w">> \o FenceLit

RECURSIVE TextOf(_)
TextOf(pieces) ==
    IF pieces = <<>> THEN <<>>
    ELSE IF Len(pieces) = 1 THEN Piece(pieces[1])
    ELSE Piece(pieces[1]) \o <<"\n">> \o TextOf(Tail(pieces))

ExtractInit ==
    /\ xpieces \in SeqsUpTo(PieceNames, MaxPieces)
    /\ xpath = <<>> /\ xcontent = <<>>
    /\ xpc = "input" /\ xout = <<>>

Extract ==
    /\ xpc = "input"
    /\ xout' = extractAllFileFences(TextOf(xpieces))
    /\ xpc' = "done"
    /\ UNCHANGED <<xpieces, xpath, xcontent>>

\* One file fence: the opening fence with the path attribute, a line
\* break, the content and the closing fence.
MaxContentLen == 3     \* longest content of the one file fence

FencePaths == {<<>>, <<" ">>, <<"a">>, <<" ", "a", " ">>, <<"a", "/", "b">>}
FenceContentChars == {"x", " ", "\n"}

RoundTripInit ==
    /\ xpath \in FencePaths
    /\ xcontent \in SeqsUpTo(FenceContentChars, MaxContentLen)
    /\ xpieces = <<>>
    /\ xpc = "block" /\ xout = <<>>

ExtractBlock ==
    /\ xpc = "block"
    /\ xout' = extractAllFileFences(FileFence(xpath, <<"\n">>, xcontent))
    /\ xpc' = "extracted"
    /\ UNCHANGED <<xpieces, xpath, xcontent>>

\* ------------------------------------------------------------------------
\* Specifications
\* ------------------------------------------------------------------------
ChatIdle ==
    /\ messages = resetConversation
    /\ maxHistoryMessages = 1
    /\ handlers = <<>>
    /\ posted = <<>>
TrimIdle ==
    /\ tpc = "idle" /\ tc = <<>> /\ tn = 1 /\ tout1 = <<>> /\ tout2 = <<>>
PathIdle ==
    /\ ppc = "idle" /\ ppath = <<>> /\ pop = "read" /\ paccepted = FALSE
    /\ paccess = NoAccess
FileIdle ==
    /\ fs = [p \in WorkspaceFiles |-> Absent]
    /\ allowWriteWithoutPrompt = FALSE
    /\ creates = <<>>
LlmIdle ==
    /\ options = [model |-> ModelName, apiUrl |-> UrlBase, apiCompat |-> "openai",
                  customEndpoint |-> <<>>, token |-> <<>>]
    /\ transport = "full"
    /\ lpc = "idle" /\ requests = <<>> /\ timer = "unset"
    /\ response = NoResponse /\ result = NoResult
ExtractIdle ==
    /\ xpc = "idle" /\ xpieces = <<>> /\ xpath = <<>> /\ xcontent = <<>>
    /\ xout = <<>>

ChatFrame == UNCHANGED <<trimVars, pathVars, fileVars, llmVars, extractVars>>
TrimFrame == UNCHANGED <<chatVars, pathVars, fileVars, llmVars, extractVars>>
PathFrame == UNCHANGED <<chatVars, trimVars, fileVars, llmVars, extractVars>>
FileFrame == UNCHANGED <<chatVars, trimVars, pathVars, llmVars, extractVars>>
LlmFrame == UNCHANGED <<chatVars, trimVars, pathVars, fileVars, extractVars>>
ExtractFrame == UNCHANGED <<chatVars, trimVars, pathVars, fileVars, llmVars>>

\* The chat session.
Init == ChatInit /\ TrimIdle /\ PathIdle /\ FileIdle /\ LlmIdle /\ ExtractIdle
Next ==
    \/ \E text \in InputTexts : ChatSend(text) /\ ChatFrame
    \/ \E text \in InputTexts : SendMessageToChat(text) /\ ChatFrame
    \/ ClearConversation /\ ChatFrame
    \/ \E i \in 1..Len(handlers), resp \in LLMResponses :
           LLMReturns(i, resp) /\ ChatFrame
    \/ \E i \in 1..Len(handlers), resp \in LLMResponses :
           LLMThrows(i, resp) /\ ChatFrame
    \/ \E i \in 1..Len(handlers) : ReadReturns(i) /\ ChatFrame
    \/ \E i \in 1..Len(handlers) : ReadThrows(i) /\ ChatFrame
    \/ \E i \in 1..Len(handlers) : QueryReturns(i) /\ ChatFrame
    \/ \E i \in 1..Len(handlers) : QueryThrows(i) /\ ChatFrame
Spec == Init /\ [][Next]_vars

\* The chat session driven by slash commands.
CommandSpecNext ==
    \/ \E text \in CommandTexts : ChatSend(text) /\ ChatFrame
    \/ \E i \in 1..Len(handlers), resp \in LLMResponses :
           LLMReturns(i, resp) /\ ChatFrame
    \/ \E i \in 1..Len(handlers), resp \in LLMResponses :
           LLMThrows(i, resp) /\ ChatFrame
    \/ \E i \in 1..Len(handlers) : ReadReturns(i) /\ ChatFrame
    \/ \E i \in 1..Len(handlers) : ReadThrows(i) /\ ChatFrame
    \/ \E i \in 1..Len(handlers) : QueryReturns(i) /\ ChatFrame
    \/ \E i \in 1..Len(handlers) : QueryThrows(i) /\ ChatFrame
CommandSpec == Init /\ [][CommandSpecNext]_vars

\* trimMessageHistory on bounded inputs.
TrimSpecInit == TrimInit /\ ChatIdle /\ PathIdle /\ FileIdle /\ LlmIdle /\ ExtractIdle
TrimSpecNext ==
    \/ TrimOnce /\ TrimFrame
    \/ TrimAgain /\ TrimFrame
TrimSpec == TrimSpecInit /\ [][TrimSpecNext]_vars

\* validateRelativePath and its callers on bounded paths.
PathSpecInit == PathInit /\ ChatIdle /\ TrimIdle /\ FileIdle /\ LlmIdle /\ ExtractIdle
PathSpecNext ==
    \/ PathRead /\ PathFrame
    \/ PathList /\ PathFrame
    \/ PathCreate /\ PathFrame
    \/ PathCreateFromSelection /\ PathFrame
PathSpec == PathSpecInit /\ [][PathSpecNext]_vars

\* The file-creation flows.
FileSpecInit == FileInit /\ ChatIdle /\ TrimIdle /\ PathIdle /\ LlmIdle /\ ExtractIdle
FileSpecNext ==
    \/ \E origin \in Origins, relPath \in RequestPaths,
          content \in RequestContents, hasWorkspace \in BOOLEAN :
           CreateFileRequest(origin, relPath, content, hasWorkspace) /\ FileFrame
    \/ \E i \in 1..Len(creates) : StatAndPrompt(i) /\ FileFrame
    \/ \E i \in 1..Len(creates), choice \in Choices :
           AnswerPrompt(i, choice) /\ FileFrame
    \/ \E i \in 1..Len(creates) : WriteFile(i) /\ FileFrame
    \/ \E p \in WorkspaceFiles : WorkspaceChange(p) /\ FileFrame
FileSpec == FileSpecInit /\ [][FileSpecNext]_vars

\* One call of callLLM.
LlmSpecInit ==
    LlmInit /\ ChatIdle /\ TrimIdle /\ PathIdle /\ FileIdle /\ ExtractIdle
LlmSpecNext ==
    \/ CallLLM /\ LlmFrame
    \/ (\E status \in Statuses : FetchResolves(status)) /\ LlmFrame
    \/ FetchRejects /\ LlmFrame
    \/ TimerFires /\ LlmFrame
    \/ (\E payload \in Payloads : BodyArrives(payload)) /\ LlmFrame
LlmSpec == LlmSpecInit /\ [][LlmSpecNext]_vars

\* The same call when every step that can happen does happen: the event
\* loop runs a ready continuation, an armed timer fires, and a transport
\* that is going to answer does answer.
LlmLiveSpec == LlmSpec /\ WF_vars(LlmSpecNext)

\* extractAllFileFences on bounded texts.
ExtractSpecInit ==
    ExtractInit /\ ChatIdle /\ TrimIdle /\ PathIdle /\ FileIdle /\ LlmIdle
ExtractSpecNext == Extract /\ ExtractFrame
ExtractSpec == ExtractSpecInit /\ [][ExtractSpecNext]_vars

\* extractAllFileFences on one file fence.
RoundTripSpecInit ==
    RoundTripInit /\ ChatIdle /\ TrimIdle /\ PathIdle /\ FileIdle /\ LlmIdle
RoundTripSpecNext == ExtractBlock /\ ExtractFrame
RoundTripSpec == RoundTripSpecInit /\ [][RoundTripSpecNext]_vars

\* ------------------------------------------------------------------------
\* Properties
\* ------------------------------------------------------------------------
UserMessage(h) == [role |-> "user", content |-> h.user]
MadeCall(h) == h.sent # <<>>
InFlight == {i \in 1..Len(handlers) : handlers[i].pc = "llm"}

\* C1: at any moment at most one model call is in flight for the
\* conversation of a chat session.
C1_SingleCallInFlight == Cardinality(InFlight) <= 1

\* C2: a file is written only for a request whose modal prompt (shown for
\* that request's path, labelled Create or Overwrite) was answered with
\* the prompt's own action; each such answer leads to at most one write;
\* any other answer ends the request with the file system untouched; all
\* of it whatever allowWriteWithoutPrompt is.
C2_Confirmed(c) == c.action \in {"Create", "Overwrite"} /\ c.choice = c.action
C2_WritesAreConfirmed ==
    \A i \in 1..Len(creates) :
        /\ creates[i].written <= 1
        /\ creates[i].pc = "write" \/ creates[i].written > 0
               => C2_Confirmed(creates[i])
C2_StepWritesOnlyConfirmed ==
    (creates' # creates /\ fs' # fs) =>
        \E i \in 1..Len(creates) :
            /\ C2_Confirmed(creates[i])
            /\ creates'[i].written = creates[i].written + 1
            /\ fs' = [fs EXCEPT ![creates[i].path] = creates[i].content]
C2_NoWriteWithoutConfirmation ==
    [](C2_WritesAreConfirmed) /\ [][C2_StepWritesOnlyConfirmed]_vars

\* C2 witness: with allowWriteWithoutPrompt set, one request was confirmed
\* and written and another was declined and ended without a write.
C2_Witness ==
    /\ allowWriteWithoutPrompt
    /\ \E i, j \in 1..Len(creates) :
           /\ creates[i].written = 1 /\ C2_Confirmed(creates[i])
           /\ creates[j].outcome = "declined" /\ creates[j].written = 0

\* C3 (as claimed): when a model call fails, the conversation after the
\* failure is the conversation before the submission with the user message
\* appended. Stated for the calls no other handler overlaps: the request
\* started with nothing pending and nothing started after it.
C3_FailureKeepsWholeHistory ==
    [][\A i \in 1..Len(handlers) :
          (handlers[i].pc = "llm" /\ handlers'[i].outcome = "error"
             /\ handlers[i].pending = 0 /\ i = Len(handlers))
              => messages' = Append(handlers[i].before, UserMessage(handlers[i]))]_vars

\* C3 (amended): the submission hands to the model
\* trimMessageHistory(before ++ [user message], maxHistoryMessages), whose
\* last element is the user message, and handling the failure of the call
\* leaves the conversation exactly as it is at that moment.
C3_SentIsTrimmedHistory ==
    \A i \in 1..Len(handlers) :
        MadeCall(handlers[i]) =>
            /\ handlers[i].sent =
                   trimMessageHistory(
                       Append(handlers[i].before, UserMessage(handlers[i])),
                       maxHistoryMessages)
            /\ handlers[i].sent[Len(handlers[i].sent)] = UserMessage(handlers[i])
C3_FailureStepKeepsConversation ==
    \A i \in 1..Len(handlers) :
        (handlers[i].pc = "llm" /\ handlers'[i].outcome = "error")
            => messages' = messages
C3_FailureLeavesConversation ==
    [](C3_SentIsTrimmedHistory) /\ [][C3_FailureStepKeepsConversation]_vars

\* C3 witness: a call has failed whose submission made the trim drop
\* earlier messages, and the conversation is still what was sent.
C3_Witness ==
    \E i \in 1..Len(handlers) :
        /\ handlers[i].outcome = "error" /\ MadeCall(handlers[i])
        /\ Len(handlers[i].sent) < Len(handlers[i].before) + 1
        /\ messages = handlers[i].sent

\* C4: for a text submitted while no other request is pending whose call
\* succeeds with reply r, the reply step appends {assistant, r} to
\* trim(old ++ [{user, t}], max), which is the final history, and posts
\* the assistant message followed by one suggestion per fence, in order.
C4_SendThenReply ==
    [][\A i \in 1..Len(handlers) :
          (handlers[i].pc = "llm" /\ handlers'[i].outcome = "reply"
             /\ handlers[i].pending = 0)
              => /\ messages' =
                        Append(trimMessageHistory(
                                   Append(handlers[i].before, UserMessage(handlers[i])),
                                   maxHistoryMessages),
                               [role |-> "assistant", content |-> handlers'[i].reply])
                 /\ posted' = posted
                        \o <<AppendEv("assistant", handlers'[i].reply)>>
                        \o SuggestEvs(extractAllFileFences(handlers'[i].reply))]_vars

\* C5: the message list transmitted in a model call contains at most
\* maxHistoryMessages messages.
C5_TransmittedWithinBound ==
    \A i \in 1..Len(handlers) : Len(handlers[i].sent) <= maxHistoryMessages

\* C6: trimming is idempotent, trim(trim(c, n), n) = trim(c, n).
C6_TrimIdempotent == tpc = "retrimmed" => tout2 = tout1

\* C7: the non-system messages of trim(c, n) are exactly the last
\* (n - systemCount) non-system messages of c, in their original order,
\* systemCount being the number of system messages kept.
LastOf(s, k) == SubSeq(s, Len(s) - Min(Max(k, 0), Len(s)) + 1, Len(s))
C7_TrimKeepsMostRecent ==
    tpc # "input" =>
        SelectSeq(tout1, NotSystem) =
            LastOf(SelectSeq(tc, NotSystem), tn - Len(SelectSeq(tout1, IsSystem)))

\* C8: trimming never drops a leading system message: when the first
\* message of c is a system message, trim(c, n) starts with that message.
C8_TrimKeepsLeadingSystem ==
    (tpc # "input" /\ tc # <<>> /\ IsSystem(tc[1]))
        => (tout1 # <<>> /\ tout1[1] = tc[1])

\* C8 witness: a conversation that starts with a system message was
\* trimmed and lost messages.
C8_Witness ==
    /\ tpc = "trimmed" /\ tc # <<>> /\ IsSystem(tc[1])
    /\ Len(tout1) < Len(tc)

\* C9: every path that validateRelativePath accepts, joined to the
\* workspace root and normalized, is inside the workspace root, so the
\* location that /read, /list or a file creation touches is inside it.
C9_AccessStaysInsideWorkspace ==
    /\ validateRelativePath(ppath) = "ok"
           => InsideWorkspace(JoinPath(WorkspaceRoot, ppath))
    /\ paccess # NoAccess => InsideWorkspace(paccess)

\* C9 witness: an operation accepted a path that holds ".." and touched a
\* location of the workspace.
C9_Witness ==
    /\ ppc = "done" /\ paccepted /\ Includes(ppath, DotDot)
    /\ paccess # NoAccess

\* C10 (as claimed): an accepted path has no ".." segment anywhere, no
\* absolute prefix and no null byte.
HasDotDotSegment(p) == \E k \in 1..Len(Segments(p)) : Segments(p)[k] = DotDot
C10_RejectsEveryDotDotSegment ==
    (ppc = "done" /\ pop = "read" /\ paccepted) =>
        /\ ~HasDotDotSegment(ppath)
        /\ ~IsAbsolute(ppath)
        /\ ~Includes(ppath, <<NUL>>)

\* Whether the segments of p, walked from the left from depth d, step
\* above the directory the walk started in.
RECURSIVE ClimbsAbove(_, _)
ClimbsAbove(segs, d) ==
    IF segs = <<>> THEN FALSE
    ELSE IF Head(segs) = <<>> \/ Head(segs) = <<".">> THEN ClimbsAbove(Tail(segs), d)
    ELSE IF Head(segs) = DotDot
    THEN (d = 0 \/ ClimbsAbove(Tail(segs), d - 1))
    ELSE ClimbsAbove(Tail(segs), d + 1)

\* C10 (amended): an accepted path has no absolute prefix, no null byte and
\* no ".." segment that climbs above the starting directory; "../a", "/a/a"
\* and every path with a null byte are rejected; "a/a.a" is accepted, and
\* so is "a/..", whose ".." normalization cancels.
C10_AcceptsOnlyContainedPaths ==
    (ppc = "done" /\ pop = "read") =>
        /\ paccepted =>
               /\ ~ClimbsAbove(Segments(ppath), 0)
               /\ ~IsAbsolute(ppath)
               /\ ~Includes(ppath, <<NUL>>)
        /\ ppath \in {<<".", ".", "/", "a">>, <<"/", "a", "/", "a">>} => ~paccepted
        /\ ppath \in {<<"a", "/", "a", ".", "a">>, <<"a", "/", ".", ".">>} => paccepted

\* C10 witness: "a/.." was given to readWorkspaceFile and accepted.
C10_Witness ==
    /\ ppc = "done" /\ pop = "read" /\ paccepted
    /\ ppath = <<"a", "/", ".", ".">>

\* C11: a request whose path is invalid, that finds no workspace open or
\* whose content is longer than maxFileSize bytes ends before a prompt is
\* shown and before anything is written, the step that runs the validations
\* leaves the file system alone, and content of at most maxFileSize bytes
\* is not refused for its size.
C11_FailsValidation(c) ==
    \/ validateRelativePath(c.path) # "ok"
    \/ c.outcome = "No workspace folder open"
    \/ ByteLength(c.content) > MaxFileSize
C11_AbortedRequests ==
    \A i \in 1..Len(creates) :
        /\ C11_FailsValidation(creates[i]) =>
               /\ creates[i].pc = "done"
               /\ creates[i].action = "" /\ creates[i].choice = ""
               /\ creates[i].written = 0
               /\ creates[i].outcome \notin {"", "written", "declined"}
        /\ ByteLength(creates[i].content) <= MaxFileSize =>
               creates[i].outcome # "Content size exceeds maximum"
C11_ValidationStepKeepsFiles ==
    Len(creates') > Len(creates) => fs' = fs
C11_ValidationFailureAborts ==
    [](C11_AbortedRequests) /\ [][C11_ValidationStepKeepsFiles]_vars

\* C11 witness: a request with a valid path in an open workspace was refused
\* for its size and another whose content has exactly maxFileSize bytes was
\* written.
C11_Witness ==
    \E i, j \in 1..Len(creates) :
        /\ creates[i].outcome = "Content size exceeds maximum"
        /\ validateRelativePath(creates[i].path) = "ok"
        /\ creates[i].pc = "done" /\ creates[i].written = 0
        /\ ByteLength(creates[j].content) = MaxFileSize
        /\ creates[j].outcome = "written"

\* ------------------------------------------------------------------------
\* Properties of callLLM
\* ------------------------------------------------------------------------
Started == lpc \notin {"idle", "start"}
HasCustomEndpoint == ~IsBlank(options.customEndpoint)
BadBaseUrl == IsBlank(options.apiUrl) \/ ~validateUrl(options.apiUrl)
ConfigurationErrors ==
    {"Model name is not configured", "API URL is not configured",
     "Invalid API URL", "Invalid custom endpoint URL"}
EmptyResponseErrors ==
    {"No response choices returned from LLM", "Empty response from LLM",
     "Empty response from Ollama"}
FailedOnConfiguration ==
    /\ lpc = "done" /\ requests = <<>>
    /\ result.kind = "throw" /\ result.message \in ConfigurationErrors

\* C12: when customEndpoint is set and is a valid http(s) URL, every
\* request of the call goes to exactly that URL with the OpenAI-compatible
\* body and parser, whatever apiUrl and apiCompat are, and a call with a
\* model name issues that request.
C12_CustomEndpointOverrides ==
    (Started /\ HasCustomEndpoint /\ validateUrl(options.customEndpoint)) =>
        /\ \A k \in 1..Len(requests) :
               /\ requests[k].url = options.customEndpoint
               /\ requests[k].endpoint = "callOpenAIEndpoint"
               /\ requests[k].body = OpenAIBody
        /\ ~IsBlank(options.model) => Len(requests) = 1

\* C12 witness: a call with a custom endpoint, an empty base URL and the
\* ollama mode got its reply from the custom endpoint.
C12_Witness ==
    /\ options.customEndpoint = UrlCustom /\ options.apiUrl = <<>>
    /\ options.apiCompat = "ollama"
    /\ lpc = "done" /\ result.kind = "return"
    /\ requests = <<callOpenAIEndpoint(UrlCustom, Headers(options.token))>>

\* C13: with no custom endpoint, the mode alone selects the route: openai
\* posts the OpenAI body to <base>/v1/chat/completions and reads
\* choices[0].message.content, ollama posts the native body to
\* <base>/api/chat and reads message.content.
C13_Route(mode) ==
    IF mode = "openai"
    THEN [path |-> ChatCompletionsPath, body |-> OpenAIBody,
          content |-> IF response.json.choices.present
                         /\ response.json.choices.list # <<>>
                      THEN response.json.choices.list[1] ELSE Missing]
    ELSE [path |-> ApiChatPath, body |-> OllamaBody,
          content |-> response.json.message]
C13_ModeSelectsRoute ==
    (Started /\ ~HasCustomEndpoint) =>
        LET route == C13_Route(options.apiCompat)
        IN  /\ \A k \in 1..Len(requests) :
                   /\ requests[k].url = StripTrailingSlash(options.apiUrl) \o route.path
                   /\ requests[k].body = route.body
            /\ (lpc = "done" /\ response.status = 200) =>
                   IF Falsy(route.content) THEN result.kind = "throw"
                   ELSE result = Return(Trim(route.content))

\* C13 witness: an ollama call to a base URL with a trailing slash read its
\* reply from message.content while the response also carried choices.
C13_Witness ==
    /\ ~HasCustomEndpoint /\ options.apiCompat = "ollama"
    /\ options.apiUrl = UrlBaseSlash
    /\ lpc = "done" /\ result = Return(<<"o", "k">>)
    /\ response.json.choices.present /\ response.json.choices.list = <<Blank>>
    /\ requests[1].url = UrlBase \o ApiChatPath

\* C14 (as claimed): a call whose model name is blank or whose base URL is
\* empty or malformed fails with a configuration error and issues no
\* request, whatever the other options are.
C14_BadBaseUrlAlwaysFails ==
    (Started /\ (IsBlank(options.model) \/ BadBaseUrl)) => FailedOnConfiguration

\* C14 (amended): a call fails with a configuration error and issues no
\* request when the model name is blank, when a custom endpoint is set and
\* is not a valid http(s) URL, or when no custom endpoint is set and the
\* base URL is empty or malformed; with a valid custom endpoint the base
\* URL is not examined.
C14_ConfigurationErrors ==
    Started =>
        /\ (\/ IsBlank(options.model)
            \/ HasCustomEndpoint /\ ~validateUrl(options.customEndpoint)
            \/ ~HasCustomEndpoint /\ BadBaseUrl) => FailedOnConfiguration
        /\ (/\ ~IsBlank(options.model)
            /\ HasCustomEndpoint /\ validateUrl(options.customEndpoint))
               => Len(requests) = 1

\* C14 witness: one call failed on a malformed base URL without a request.
C14_Witness ==
    /\ ~IsBlank(options.model) /\ ~HasCustomEndpoint
    /\ options.apiUrl = UrlFtp
    /\ FailedOnConfiguration /\ result.message = "Invalid API URL"
    /\ timer = "unset"

\* C15: a call issues at most one request; a fetch that ends without a
\* response ends the call with an error in the same step, and nothing is
\* requested after that.
C15_AtMostOneRequest == Len(requests) <= 1
C15_FailureIsFinal ==
    /\ (lpc = "fetch" /\ lpc' \notin {"fetch", "json", "text"}) =>
           /\ lpc' = "done" /\ result'.kind = "throw"
           /\ requests' = requests
    /\ lpc = "done" => (lpc' = "done" /\ requests' = requests /\ result' = result)
C15_NoRetries == [](C15_AtMostOneRequest) /\ [][C15_FailureIsFinal]_vars

\* C15 witness: the one request of a call failed on the network and the
\* call ended with that error.
C15_Witness ==
    /\ lpc = "done" /\ Len(requests) = 1
    /\ result = Throw("fetch failed")

\* C16: every call eventually returns a reply or an error, whatever the
\* transport does.
C16_CallTerminates == <>(lpc = "done")

\* C17: on a success status the OpenAI parser returns the trimmed content
\* of the first choice and fails with the empty-response error when choices
\* is missing or empty or that content is missing or empty; the native
\* parser does the same with the top-level message.content.
C17_Expected(content) ==
    IF content = Missing \/ content = <<>> THEN "throw" ELSE "return"
C17_ParsersReadContent ==
    (lpc = "done" /\ response.status = 200) =>
        LET json == response.json
            openai == requests[1].endpoint = "callOpenAIEndpoint"
            content == IF ~openai THEN json.message
                       ELSE IF ~json.choices.present \/ json.choices.list = <<>>
                       THEN Missing
                       ELSE json.choices.list[1]
        IN  IF C17_Expected(content) = "throw"
            THEN /\ result.kind = "throw"
                 /\ result.message \in EmptyResponseErrors
            ELSE result = Return(Trim(content))

\* C17 witness: the OpenAI parser returned the trimmed content of the first
\* of two choices.
C17_Witness ==
    /\ lpc = "done" /\ response.status = 200
    /\ requests[1].endpoint = "callOpenAIEndpoint"
    /\ response.json.choices.list = <<ContentPadded, ContentOther>>
    /\ result = Return(<<"o", "k">>)

\* C18: every text callLLM returns is non-empty after trimming.
C18_ReplyNeverEmpty ==
    result.kind = "return" => Trim(result.text) # <<>>

\* ------------------------------------------------------------------------
\* Properties of the chat session, continued
\* ------------------------------------------------------------------------
\* C19: the step in which a model call fails posts exactly one 'chat:error'
\* event carrying the error message and nothing else, and ends the handler;
\* a handler that has ended does nothing more; an assistant 'chat:append'
\* or a 'file:suggest' event is only ever posted by the step of a call that
\* succeeded.
C19_FailurePostsOneError ==
    \A i \in 1..Len(handlers) :
        (handlers[i].pc = "llm" /\ handlers'[i].outcome = "error") =>
            /\ \E resp \in LLMResponses :
                   /\ ~callLLMResult(resp).ok
                   /\ posted' = Append(posted, ErrorEv(callLLMResult(resp).text))
            /\ handlers'[i].pc = "done" /\ handlers'[i].reply = <<>>
C19_DoneStaysDone ==
    \A i \in 1..Len(handlers) :
        handlers[i].pc = "done" => handlers'[i] = handlers[i]
C19_OnlyRepliesPostAssistant ==
    (\E k \in (Len(posted) + 1)..Len(posted') :
         \/ posted'[k].type = "file:suggest"
         \/ posted'[k].type = "chat:append" /\ posted'[k].role = "assistant")
        => \E i \in 1..Len(handlers) :
               handlers[i].pc = "llm" /\ handlers'[i].outcome = "reply"
C19_FailedCallIsReported ==
    [][C19_FailurePostsOneError /\ C19_DoneStaysDone
           /\ C19_OnlyRepliesPostAssistant]_vars

\* C19 witness: a model call failed and was reported, and the next input,
\* sent after that, got its reply with a file suggestion.
C19_Witness ==
    /\ Len(handlers) = 2
    /\ handlers[1].outcome = "error" /\ MadeCall(handlers[1])
    /\ handlers[2].pending = 0 /\ handlers[2].outcome = "reply"
    /\ posted[Len(posted)].type = "file:suggest"
    /\ \E k \in 1..Len(posted) : posted[k].type = "chat:error"

\* ------------------------------------------------------------------------
\* Properties of extractAllFileFences
\* ------------------------------------------------------------------------
\* The suggestion a piece stands for, if it is a well-formed block.
C20_BlockOf(name) ==
    CASE name = "blockA" -> <<[path |-> <<"a">>, content |-> <<"x">>]>>
      [] name = "blockB" ->
             <<[path |-> <<"b", "/", "c">>, content |-> <<"y", "\n", "z", "\n">>]>>
      [] name = "blockEmpty" -> <<[path |-> <<"e">>, content |-> <<>>]>>
      [] OTHER -> <<>>
RECURSIVE C20_BlocksOf(_)
C20_BlocksOf(pieces) ==
    IF pieces = <<>> THEN <<>>
    ELSE C20_BlockOf(Head(pieces)) \o C20_BlocksOf(Tail(pieces))

\* C20: extractAllFileFences returns one suggestion per well-formed file
\* fence block of the text, in order of appearance; a text without such a
\* block yields the empty sequence.
C20_OneSuggestionPerBlock ==
    xpc = "done" => xout = C20_BlocksOf(xpieces)

\* C20 witness: a text with two blocks around a fence of another language
\* gave the two suggestions in the order of the text.
C20_Witness ==
    /\ xpc = "done" /\ xpieces = <<"blockB", "codeFence", "blockA">>
    /\ Len(xout) = 2 /\ xout[1].path = <<"b", "/", "c">> /\ xout[2].path = <<"a">>

\* C21: the text made of one file fence with a non-empty path p, a line
\* break, a content c without the closing fence marker, and the closing
\* fence yields exactly one suggestion, with the path p trimmed and the
\* content exactly c.
C21_RoundTrip ==
    (xpc = "extracted" /\ xpath # <<>>) =>
        xout = <<[path |-> Trim(xpath), content |-> xcontent]>>

\* C22: no suggestion has an empty path: a block whose path attribute is
\* empty or only white space yields nothing, and a block with a path and an
\* empty content yields a suggestion with the empty content.
C22_NoEmptyPath ==
    xpc = "extracted" =>
        /\ \A k \in 1..Len(xout) : xout[k].path # <<>>
        /\ Trim(xpath) = <<>> => xout = <<>>
        /\ (Trim(xpath) # <<>> /\ xcontent = <<>>) =>
               xout = <<[path |-> Trim(xpath), content |-> <<>>]>>

\* ------------------------------------------------------------------------
\* Properties of the slash commands
\* ------------------------------------------------------------------------
\* The characters of a command text between its slash and the first white
\* space after it.
RECURSIVE UpToSpace(_)
UpToSpace(s) ==
    IF s = <<>> \/ IsSpace(Head(s)) THEN <<>> ELSE <<Head(s)>> \o UpToSpace(Tail(s))
FirstToken(text) == UpToSpace(Tail(Trim(text)))
IsCommandText(text) == Trim(text) # <<>> /\ Head(Trim(text)) = "/"
QueryCommands == {CmdList, CmdSearch, CmdWorkspace, CmdInfo, CmdHelp}
KnownCommands == QueryCommands \cup {CmdRead}

\* C23: an input whose trimmed text starts with '/' is dispatched on its
\* first token in lower case and makes no model call; the step that takes
\* an unrecognized token posts the input and exactly one 'Unknown command'
\* notice and leaves the conversation unchanged; the steps of /list,
\* /search, /workspace, /info and /help leave the conversation unchanged and
\* post exactly one message in all (the report, or the usage or error
\* notice when the query cannot run).
C23_CommandsMakeNoCall ==
    \A i \in 1..Len(handlers) :
        IsCommandText(handlers[i].text) =>
            /\ handlers[i].cmd = ToLowerCase(FirstToken(handlers[i].text))
            /\ handlers[i].sent = <<>>
            /\ handlers[i].pc # "llm"
            /\ handlers[i].outcome # "reply"
            /\ handlers[i].cmd \notin KnownCommands => handlers[i].pc = "done"
C23_DispatchStep ==
    (Len(handlers') > Len(handlers)
        /\ IsCommandText(handlers'[Len(handlers')].text)) =>
        LET h == handlers'[Len(handlers')]
        IN  /\ messages' = messages
            /\ Len(posted') = Len(posted) + (IF h.pc = "done" THEN 2 ELSE 1)
            /\ posted'[Len(posted) + 1] = AppendEv("user", h.text)
            /\ h.cmd \notin KnownCommands =>
                   posted'[Len(posted')] =
                       AppendEv("system", <<"Unknown command: /">> \o h.cmd)
C23_QueryStep ==
    \A i \in 1..Len(handlers) :
        (handlers[i].pc = "query" /\ handlers'[i].pc # "query") =>
            /\ handlers[i].cmd \in QueryCommands
            /\ messages' = messages
            /\ Len(posted') = Len(posted) + 1
            /\ handlers'[i].pc = "done"
C23_CommandsNeverReachModel ==
    [](C23_CommandsMakeNoCall) /\ [][C23_DispatchStep /\ C23_QueryStep]_vars

\* C23 witness: '/Info' was dispatched as info and reported, and a lone
\* slash was answered with the 'Unknown command' notice, while the
\* conversation stayed the single system message.
C23_Witness ==
    /\ Len(handlers) = 2
    /\ handlers[1].text = TextInfo /\ handlers[1].cmd = CmdInfo
    /\ handlers[1].outcome = "report"
    /\ handlers[2].text = TextSlash /\ handlers[2].pc = "done"
    /\ posted[Len(posted)] = AppendEv("system", <<"Unknown command: /">>)
    /\ messages = resetConversation

\* The message commandReadFile adds to the conversation for a file.
C24_FileMessage(filePath) ==
    [role |-> "user",
     content |-> <<"I'm showing you the content of file \"">> \o filePath
                     \o <<"\":\n\n">> \o FenceLit \o <<"\n">> \o FileText
                     \o <<"\n">> \o FenceLit]
C24_IsFileMessage(m) ==
    \E i \in 1..Len(handlers) : m = C24_FileMessage(handlers[i].arg)
C24_Contains(list, m) == \E k \in 1..Len(list) : list[k] = m

\* The step in which a /read gets its file posts the report and appends
\* exactly one user message with the file content at the end of the
\* conversation; the step in which the read fails posts one error and
\* leaves the conversation unchanged.
C24_ReadStep ==
    \A i \in 1..Len(handlers) :
        (handlers[i].pc = "read" /\ handlers'[i].pc # "read") =>
            /\ Len(posted') = Len(posted) + 1
            /\ IF handlers'[i].outcome = "report"
               THEN /\ messages' = Append(messages, C24_FileMessage(handlers[i].arg))
                    /\ posted'[Len(posted')].type = "chat:append"
                    /\ posted'[Len(posted')].role = "system"
               ELSE /\ messages' = messages
                    /\ posted'[Len(posted')].type = "chat:error"
\* A /read with no argument or with an invalid path ends in the step that
\* takes it: one usage or error notice, the conversation unchanged.
C24_RejectedStep ==
    (Len(handlers') > Len(handlers)
        /\ handlers'[Len(handlers')].cmd = CmdRead
        /\ handlers'[Len(handlers')].pc = "done") =>
        /\ messages' = messages
        /\ Len(posted') = Len(posted) + 2
        /\ posted'[Len(posted')] \in
               {AppendEv("system", <<"Usage: /read <file-path>">>),
                ErrorEv(<<validateRelativePath(handlers'[Len(handlers')].arg)>>)}

\* C24 (as claimed): a successful /read appends the file message so that
\* the next model call transmits it: a call submitted when the conversation
\* ends with a file message has that message in its transmitted list.
C24_NextCallHasFile ==
    \A i \in 1..Len(handlers) :
        (MadeCall(handlers[i]) /\ handlers[i].before # <<>>
            /\ C24_IsFileMessage(handlers[i].before[Len(handlers[i].before)])) =>
            C24_Contains(handlers[i].sent,
                         handlers[i].before[Len(handlers[i].before)])
C24_NextCallHasFileIfItFits ==
    \A i \in 1..Len(handlers) :
        (MadeCall(handlers[i]) /\ handlers[i].before # <<>>
            /\ C24_IsFileMessage(handlers[i].before[Len(handlers[i].before)])
            /\ maxHistoryMessages >= 3) =>
            C24_Contains(handlers[i].sent,
                         handlers[i].before[Len(handlers[i].before)])
C25_ClearStep ==
    (Len(handlers') > Len(handlers) /\ handlers'[Len(handlers')].kind = "clear") =>
        /\ messages' = <<[role |-> "system", content |-> SystemPrompt]>>
        /\ posted' = Append(posted, ClearEv)
C25_ClearResets == [][C25_ClearStep]_vars

\* C25 witness: a clear taken while a model call is pending, on a
\* conversation that held more than the system message.
C25_Witness ==
    /\ Len(handlers) = 2
    /\ handlers[1].pc = "llm"
    /\ handlers[2].kind = "clear" /\ Len(handlers[2].before) > 1
    /\ messages = <<SystemMessage>>
    /\ posted[Len(posted)] = ClearEv

\* ------------------------------------------------------------------
\* The webview's input box (media script, sendMessage) in front of the
\* panel's message handler.
\* ------------------------------------------------------------------
WritePrefix == <<"/", "w", "r", "i", "t", "e", " ">>
\* Texts typed into the input box: the documented one-line form, the
\* two-line form with a content, the two-line form with a blank path, a
\* plain question and a blank input.
TextWriteInline == WritePrefix \o FilePathA
TextWriteBlock == WritePrefix \o FilePathA \o <<"\n">> \o ContentSmall
TextWriteBlockPadded == <<" ">> \o WritePrefix \o FilePathB \o <<" ", "\n">> \o ContentLarge
TextWriteNoPath == WritePrefix \o <<" ", "\n">> \o ContentSmall
WebviewTexts ==
    {TextWriteInline, TextWriteBlock, TextWriteBlockPadded, TextWriteNoPath,
     TextHi, TextBlank}

\* String.prototype.indexOf('\n'): the 0-based index of the first line
\* break, -1 when there is none.
IndexOfNewline(text) ==
    IF \E k \in 1..Len(text) : text[k] = "\n"
    THEN (CHOOSE k \in 1..Len(text) :
              text[k] = "\n" /\ \A j \in 1..(k - 1) : text[j] # "\n") - 1
    ELSE -1

\* The message sendMessage posts to the extension for the value of the
\* input box: nothing for a blank input, 'file:create' for '/write ' with a
\* line break and a non-blank path before it, 'chat:send' otherwise.
sendMessage(value) ==
    LET text == Trim(value)
        firstNewline == IndexOfNewline(text)
        path == Trim(SubSeq(text, 8, firstNewline))
        content == SubSeq(text, firstNewline + 2, Len(text))
    IN  IF text = <<>>
        THEN [type |-> "none", text |-> <<>>, path |-> <<>>, content |-> <<>>]
        ELSE IF StartsWith(text, WritePrefix) /\ firstNewline > 0 /\ path # <<>>
        THEN [type |-> "file:create", text |-> <<>>, path |-> path,
              content |-> content]
        ELSE [type |-> "chat:send", text |-> text, path |-> <<>>,
              content |-> <<>>]

\* The user submits the input box; the posted message is taken by the
\* panel's handler: 'chat:send' echoes the text and runs onUserMessage,
\* 'file:create' runs createFileWithConfirm up to its first await.
SendMessage(value, hasWorkspace) ==
    LET msg == sendMessage(value)
    IN  CASE msg.type = "chat:send" ->
               ChatSend(msg.text) /\ UNCHANGED fileVars
          [] msg.type = "file:create" ->
               /\ CreateFileRequest("file:create", msg.path, msg.content, hasWorkspace)
               /\ UNCHANGED chatVars
          [] OTHER -> UNCHANGED <<chatVars, fileVars>>

WebviewFrame == UNCHANGED <<trimVars, pathVars, llmVars, extractVars>>
WebviewSpecInit ==
    ChatInit /\ FileInit /\ TrimIdle /\ PathIdle /\ LlmIdle /\ ExtractIdle
WebviewSpecNext ==
    \/ \E value \in WebviewTexts, hasWorkspace \in BOOLEAN :
           SendMessage(value, hasWorkspace) /\ WebviewFrame
    \/ \E i \in 1..Len(handlers), resp \in LLMResponses :
           LLMReturns(i, resp) /\ ChatFrame
    \/ \E i \in 1..Len(handlers), resp \in LLMResponses :
           LLMThrows(i, resp) /\ ChatFrame
    \/ \E i \in 1..Len(creates) : StatAndPrompt(i) /\ FileFrame
    \/ \E i \in 1..Len(creates), choice \in Choices :
           AnswerPrompt(i, choice) /\ FileFrame
    \/ \E i \in 1..Len(creates) : WriteFile(i) /\ FileFrame
WebviewSpec == WebviewSpecInit /\ [][WebviewSpecNext]_vars

\* An input of the form '/write <path>': the prefix, then a non-blank path
\* on the same line.
C26_IsWriteCommand(text) ==
    /\ StartsWith(text, WritePrefix)
    /\ LET rest == SubSeq(text, 8, Len(text))
           line == IF IndexOfNewline(rest) = -1 THEN rest
                   ELSE SubSeq(rest, 1, IndexOfNewline(rest))
       IN  Trim(line) # <<>>
\* C26: every input of the form '/write <path>' becomes a 'file:create'
\* request: none reaches the chat handler, so none is sent to the model or
\* answered with an 'Unknown command' notice.
C26_WriteCreatesFile ==
    /\ \A i \in 1..Len(handlers) : ~C26_IsWriteCommand(handlers[i].text)
    /\ \A k \in 1..Len(posted) :
           posted[k] # AppendEv("system", <<"Unknown command: /">> \o <<"w", "r", "i", "t", "e">>)

\* C27: in every reachable state the conversation holds exactly one
\* system message, which is its first element; every other element has
\* role user or assistant.
C27_OneSystemFirst ==
    /\ messages # <<>>
    /\ messages[1].role = "system"
    /\ \A k \in 2..Len(messages) : messages[k].role \in {"user", "assistant"}

\* C27 witness: a conversation of three or more messages that holds a file
\* added by /read, where a call has trimmed what it transmitted.
C27_Witness ==
    /\ Len(messages) >= 3
    /\ \E i \in 1..Len(handlers) : handlers[i].outcome = "report"
    /\ \E i \in 1..Len(handlers) :
           MadeCall(handlers[i])
           /\ Len(handlers[i].sent) < Len(handlers[i].before) + 1

\* No submission has arrived since the last clear.
C28_JustCleared ==
    /\ handlers # <<>>
    /\ handlers[Len(handlers)].kind = "clear"
\* From a clear until the next submission the conversation stays the
\* single system message.
C28_StaysCleared ==
    (C28_JustCleared /\ Len(handlers') = Len(handlers)) =>
        messages' = <<SystemMessage>>
\* Every assistant message has a user message before it in the conversation.
C28_AssistantAfterUser ==
    \A k \in 1..Len(messages) :
        messages[k].role = "assistant" =>
            \E j \in 1..(k - 1) : messages[j].role = "user"
\* C28: the reply to a call started before a clear is never appended after
\* that clear: the conversation stays the single system message until the
\* next submission, and every assistant message follows a user message.
C28_NoReplyAfterClear ==
    [](C28_AssistantAfterUser) /\ [][C28_StaysCleared]_vars

\* C29: a write that follows a prompt labelled 'Create' never replaces a
\* file that exists at the moment of the write: an existing file is
\* replaced only after an 'Overwrite' prompt for its path.
C29_CreateWriteStep ==
    \A i \in 1..Len(creates) :
        (creates[i].pc = "write" /\ creates'[i].pc = "done"
            /\ creates[i].action = "Create") =>
            fs[creates[i].path] = Absent
C29_CreateNeverOverwrites == [][C29_CreateWriteStep]_vars

\* ------------------------------------------------------------------
\* The compiled panel (out/chatPanel.js): onUserMessage awaits the stored
\* token between pushing the user message and trimming, and the
\* 'chat:send' handler does not echo the text.
\* ------------------------------------------------------------------
CompiledTexts == {TextHi, TextYoPadded, TextBlank, TextRead}

\* onUserMessage up to its first await: a blank text ends at once, a
\* command goes to handleCommand, any other text is pushed as a user
\* message and the handler waits for getSecretToken.
onUserMessageCompiled(msgs, text) ==
    LET trimmedText == Trim(text)
    IN  IF trimmedText = <<>>
        THEN Effect(msgs, <<>>, "done", <<>>, <<>>, <<>>)
        ELSE IF StartsWith(trimmedText, <<"/">>)
        THEN handleCommand(msgs, trimmedText)
        ELSE Effect(Append(msgs, [role |-> "user", content |-> trimmedText]),
                    <<>>, "token", <<>>, <<>>, <<>>)

\* The 'chat:send' handler of the compiled panel.
ChatSendCompiled(text) ==
    /\ Len(handlers) < MaxInputs
    /\ LET eff == onUserMessageCompiled(messages, text)
       IN  /\ messages' = eff.msgs
           /\ posted' = posted \o eff.posts
           /\ handlers' = Append(handlers, Handler("chat:send", text, eff))
    /\ UNCHANGED maxHistoryMessages

\* getSecretToken resolves: the conversation, as it is now, is trimmed and
\* handed to callLLM, which builds the request body before its first await.
TokenReturns(i) ==
    /\ handlers[i].pc = "token"
    /\ messages' = trimMessageHistory(messages, maxHistoryMessages)
    /\ handlers' = [handlers EXCEPT ![i].pc = "llm", ![i].sent = messages']
    /\ UNCHANGED <<posted, maxHistoryMessages>>

\* getSecretToken rejects: the catch block posts the error.
TokenThrows(i) ==
    /\ handlers[i].pc = "token"
    /\ posted' = Append(posted, ErrorEv(<<"secret storage failed">>))
    /\ Finish(i, "error", <<>>)
    /\ UNCHANGED <<messages, maxHistoryMessages>>

CompiledSpecNext ==
    \/ \E text \in CompiledTexts : ChatSendCompiled(text) /\ ChatFrame
    \/ \E i \in 1..Len(handlers) : TokenReturns(i) /\ ChatFrame
    \/ \E i \in 1..Len(handlers) : TokenThrows(i) /\ ChatFrame
    \/ ClearConversation /\ ChatFrame
    \/ \E i \in 1..Len(handlers), resp \in LLMResponses :
           LLMReturns(i, resp) /\ ChatFrame
    \/ \E i \in 1..Len(handlers), resp \in LLMResponses :
           LLMThrows(i, resp) /\ ChatFrame
    \/ \E i \in 1..Len(handlers) : ReadReturns(i) /\ ChatFrame
    \/ \E i \in 1..Len(handlers) : ReadThrows(i) /\ ChatFrame
CompiledSpec == Init /\ [][CompiledSpecNext]_vars

\* C30: for every model request issued by onUserMessage the last element
\* of the transmitted list is the user message whose submission triggered
\* the request (role user, content the trimmed input text).
C30_LastIsTrigger ==
    \A i \in 1..Len(handlers) :
        MadeCall(handlers[i]) =>
            handlers[i].sent[Len(handlers[i].sent)] = UserMessage(handlers[i])
====
